---- MODULE Spec2Model ----
(***************************************************************************)
(* Model of CustomVLLMWrapper (src/week04/p12/custom_vllm_wrapper.py):     *)
(* request-parameter building, the blocking call with its retry loop, the  *)
(* response parser and the streaming call.                                 *)
(*                                                                         *)
(* Python values are tagged records so that None, numbers, booleans,       *)
(* strings, lists and dicts can live in one dict.  Floats are written in   *)
(* hundredths (0.7 is PyFloat(70)).  Exception messages are given in ASCII;  *)
(* the comment next to each names the source text.                         *)
(***************************************************************************)
EXTENDS Integers, Sequences, FiniteSets, TLC

VARIABLES
    self,         \* the client instance: every pydantic field of the class
    constructed,  \* ghost: the instance as it was right after construction
    pc,           \* "new" | "idle" | "request" | "streaming" | "done"
    mode,         \* "none" | "construct" | "call" | "stream": the operation
                  \* in progress
    args,         \* the arguments of the operation in progress
    params,       \* the payload built by _build_request_params for this call
    attempt,      \* loop variable of _make_request
    trace,        \* events of this call: HTTP posts and backoff sleeps
    consumed,     \* streaming: transport lines read so far
    yielded,      \* streaming: fragments handed to the consumer so far
    connOpen,     \* streaming: TRUE while the HTTP connection is open
    result,       \* outcome of the operation
    completed,    \* ghost: number of operations that have ended
    overridden,   \* ghost: an operation that has ended was given overrides
    other,        \* the locals of a second complete() that runs on another
                  \* thread at the same time: its instance reference, pc,
                  \* mode, args, params, attempt, trace and result
    config        \* vllm_config: the dict objects of the presets and of the
                  \* caller, the reference the caller holds, and what
                  \* get_preset_config, validate_config and the constructor
                  \* last gave

vars == <<self, constructed, pc, mode, args, params, attempt, trace, consumed,
          yielded, connOpen, result, completed, overridden, other, config>>

----------------------------------------------------------------------------
(* Bounds of the model *)

\* largest max_retries a client is constructed with
MaxRetriesBound == 3

\* longest streamed body, in transport lines
MaxLines == 2

\* number of operations one client is followed through
MaxCalls == 2

----------------------------------------------------------------------------
(* Python values *)

None == [t |-> "None"]
PyInt(i) == [t |-> "int", i |-> i]
PyFloat(h) == [t |-> "float", h |-> h]
PyBool(b) == [t |-> "bool", b |-> b]
PyStr(s) == [t |-> "str", s |-> s]
PyList(l) == [t |-> "list", l |-> l]
PyDict(d) == [t |-> "dict", d |-> d]

EmptyDict == [k \in {} |-> None]

\* Python truthiness, as used by `a or b` and `if x`
Truthy(v) ==
    CASE v.t = "None" -> FALSE
      [] v.t = "int" -> v.i # 0
      [] v.t = "float" -> v.h # 0
      [] v.t = "bool" -> v.b
      [] v.t = "str" -> v.s # ""
      [] v.t = "list" -> v.l # <<>>
      [] v.t = "dict" -> DOMAIN v.d # {}

\* b only where a is None
OrUnlessNone(a, b) == IF a # None THEN a ELSE b

\* a or b
Or(a, b) == IF Truthy(a) THEN a ELSE b

\* dict.get(key, default)
Get(d, key, default) == IF key \in DOMAIN d THEN d[key] ELSE default

\* the dict d without the keys in ks
Without(d, ks) == [k \in DOMAIN d \ ks |-> d[k]]

----------------------------------------------------------------------------
(* Outcomes of an operation *)

NoResult == [status |-> "none"]
Return(v) == [status |-> "returned", value |-> v]
Raise(cls, msg, cause) ==
    [status |-> "raised", exc |-> [cls |-> cls, msg |-> msg, cause |-> cause]]

\* Exception(f"vLLM API 请求失败: {e}")
MsgRequestFailed == "vLLM API request failed"
\* Exception(f"vLLM 流式请求失败: {e}")
MsgStreamRequestFailed == "vLLM stream request failed"
\* Exception("响应格式错误：缺少 choices 字段")
MsgMissingChoices == "response format error: missing choices"
\* Exception(f"解析响应失败: {e}")
MsgParseFailed == "parsing the response failed"

----------------------------------------------------------------------------
(* The client instance *)

\* the field defaults of the class
DefaultFields ==
    [model_name |-> PyStr("m"),
     base_url |-> PyStr("http://localhost:8000"),
     api_key |-> None,
     temperature |-> PyFloat(70),
     top_p |-> PyFloat(90),
     top_k |-> PyInt(50),
     max_tokens |-> PyInt(512),
     repetition_penalty |-> PyFloat(110),
     frequency_penalty |-> PyFloat(0),
     presence_penalty |-> PyFloat(0),
     min_p |-> PyFloat(0),
     stop |-> None,
     stop_token_ids |-> None,
     use_beam_search |-> PyBool(FALSE),
     best_of |-> PyInt(1),
     n |-> PyInt(1),
     length_penalty |-> PyFloat(100),
     early_stopping |-> PyBool(FALSE),
     seed |-> None,
     logprobs |-> None,
     echo |-> PyBool(FALSE),
     skip_special_tokens |-> PyBool(TRUE),
     spaces_between_special_tokens |-> PyBool(TRUE),
     timeout |-> 60,
     max_retries |-> 3]

\* the generation parameters _build_request_params reads from **kwargs
KwargsParams ==
    {"temperature", "top_p", "top_k", "max_tokens", "repetition_penalty",
     "frequency_penalty", "presence_penalty", "min_p", "use_beam_search",
     "best_of", "n", "length_penalty", "early_stopping", "seed", "logprobs",
     "echo", "skip_special_tokens", "spaces_between_special_tokens"}

\* every key of the params literal of _build_request_params
PayloadKeys ==
    {"model", "prompt", "stream", "stop", "stop_token_ids"} \cup KwargsParams

\* the max_retries values the model constructs clients with
CtorMaxRetries == (-1) .. MaxRetriesBound

\* CustomVLLMWrapper(model_name="m", stop=..., stop_token_ids=...,
\*                   temperature=..., max_retries=...)
Construct(stop, stop_token_ids, temperature, max_retries) ==
    [DefaultFields EXCEPT !.stop = stop,
                          !.stop_token_ids = stop_token_ids,
                          !.temperature = temperature,
                          !.max_retries = max_retries]

----------------------------------------------------------------------------
(* Construction: the pydantic validation of the keyword arguments *)

\* a range that lets top_k = 0 through
LooseFieldRange ==
    [temperature |-> <<0, 200>>,
     top_p |-> <<0, 100>>,
     top_k |-> <<0, 100>>,
     max_tokens |-> <<1, 4096>>,
     repetition_penalty |-> <<10, 200>>,
     frequency_penalty |-> <<-200, 200>>,
     presence_penalty |-> <<-200, 200>>,
     min_p |-> <<0, 100>>,
     best_of |-> <<1, 20>>,
     n |-> <<1, 10>>,
     length_penalty |-> <<10, 200>>,
     logprobs |-> <<0, 20>>]

\* Field(ge=..., le=...) of each constrained field; floats in hundredths
FieldRange ==
    [temperature |-> <<0, 200>>,
     top_p |-> <<0, 100>>,
     top_k |-> <<1, 100>>,
     max_tokens |-> <<1, 4096>>,
     repetition_penalty |-> <<10, 200>>,
     frequency_penalty |-> <<-200, 200>>,
     presence_penalty |-> <<-200, 200>>,
     min_p |-> <<0, 100>>,
     best_of |-> <<1, 20>>,
     n |-> <<1, 10>>,
     length_penalty |-> <<10, 200>>,
     logprobs |-> <<0, 20>>]

\* the fields declared float, and the fields declared Optional
FloatFields ==
    {"temperature", "top_p", "repetition_penalty", "frequency_penalty",
     "presence_penalty", "min_p", "length_penalty"}
OptionalFields == {"logprobs"}

\* the number a numeric value stands for: units, or hundredths for a float
Num(v) == IF v.t = "float" THEN v.h ELSE v.i

\* the ge/le constraint of field f on value v; None passes an Optional field
SatisfiesField(f, v) ==
    IF v = None THEN f \in OptionalFields
    ELSE FieldRange[f][1] <= Num(v) /\ Num(v) <= FieldRange[f][2]

\* @validator('temperature') and @validator('top_p')
ValidatorRejects(f, v) ==
    CASE f = "temperature" -> Num(v) < 0 \/ Num(v) > 200
      [] f = "top_p" -> Num(v) < 0 \/ Num(v) > 100
      [] OTHER -> FALSE

\* the fields of the one ValidationError pydantic raises: every field whose
\* constraint or validator fails, and model_name when it is not given
\* (Field(...) makes it required; nothing constrains its length)
CtorErrors(kwargs) ==
    {f \in DOMAIN FieldRange \cap DOMAIN kwargs :
        \/ ~SatisfiesField(f, kwargs[f])
        \/ kwargs[f] # None /\ ValidatorRejects(f, kwargs[f])}
      \cup (IF "model_name" \in DOMAIN kwargs THEN {} ELSE {"model_name"})

ValidationError(fields) ==
    [status |-> "raised",
     exc |-> [cls |-> "ValidationError", msg |-> "validation error",
              cause |-> "", fields |-> fields]]

\* the instance a successful construction leaves: the given values, and the
\* class defaults for the rest
Instance(kwargs) == [f \in DOMAIN DefaultFields |-> Get(kwargs, f, DefaultFields[f])]

\* no instance yet
Unconstructed == EmptyDict

----------------------------------------------------------------------------
(* _build_request_params *)

\* the params literal returned as it is
KeepNone(d) == d

\* the dict comprehension {k: v for k, v in params.items() if v is not None}
RemoveNone(d) == [k \in {j \in DOMAIN d : d[j] # None} |-> d[k]]

\* a params literal that keeps the instance value where the override lies
\* outside the declared range of the field
RangeCheckedParamsLiteral(slf, prompt, stop, stream, kwargs) ==
    [k \in PayloadKeys |->
        CASE k = "model" -> slf.model_name
          [] k = "prompt" -> prompt
          [] k = "stream" -> stream
          [] k = "stop" -> stop
          [] k = "stop_token_ids" -> slf.stop_token_ids
          [] OTHER ->
               IF /\ k \in DOMAIN kwargs
                  /\ k \in DOMAIN FieldRange => SatisfiesField(k, kwargs[k])
               THEN kwargs[k] ELSE slf[k]]

\* the params literal, before None values are removed
ParamsLiteral(slf, prompt, stop, stream, kwargs) ==
    [k \in PayloadKeys |->
        CASE k = "model" -> slf.model_name
          [] k = "prompt" -> prompt
          [] k = "stream" -> stream
          [] k = "stop" -> stop
          [] k = "stop_token_ids" -> slf.stop_token_ids
          [] OTHER -> Get(kwargs, k, slf[k])]

\* a payload stamped with the number of operations the client has completed
BuildWithCallCounter(slf, prompt, stop, stream, kwargs) ==
    [k \in DOMAIN RemoveNone(ParamsLiteral(slf, prompt, stop, stream, kwargs))
           \cup {"request_id"} |->
        IF k = "request_id" THEN PyInt(completed)
        ELSE RemoveNone(ParamsLiteral(slf, prompt, stop, stream, kwargs))[k]]

\* _build_request_params: the literal, the kwargs, the None values removed
BuildRequestParams(slf, prompt, stop, stream, kwargs) ==
    RemoveNone(ParamsLiteral(slf, prompt, stop, stream, kwargs))

\* the overrides written back to the instance
SelfUpdatedWithKwargs(slf, stop, kwargs) ==
    [f \in DOMAIN slf |->
        IF f \in DOMAIN kwargs /\ f \in KwargsParams THEN kwargs[f]
        ELSE IF f = "stop" THEN stop
        ELSE slf[f]]

\* the instance after _build_request_params ran: the method assigns to no
\* attribute of self
SelfAfterBuild(slf, stop, kwargs) == slf

----------------------------------------------------------------------------
(* _parse_response *)

\* `key in container` for the containers a JSON body can be; a TypeError for
\* the values that are not containers
IsContainer(v) == v.t \in {"dict", "list", "str"}
Contains(v, key) ==
    CASE v.t = "dict" -> key \in DOMAIN v.d
      [] v.t = "list" -> \E i \in DOMAIN v.l : v.l[i] = PyStr(key)
      [] v.t = "str" -> v.s = key   \* substring test, on the strings modelled

\* response['choices'][0]['text'] once `'choices' in response` held and
\* response['choices'] was truthy
FirstChoiceText(response) ==
    IF response.t # "dict"
    THEN Raise("TypeError", "indices must be integers", "")
    ELSE LET choices == response.d["choices"] IN
         IF choices.t = "dict"
         THEN Raise("Exception", MsgParseFailed, "KeyError")
         ELSE IF choices.t # "list"
         THEN Raise("TypeError", "not subscriptable", "")
         ELSE LET first == choices.l[1] IN
              IF first.t # "dict"
              THEN Raise("TypeError", "indices must be integers", "")
              ELSE IF "text" \in DOMAIN first.d
              THEN Return(first.d["text"])
              ELSE Raise("Exception", MsgParseFailed, "KeyError")

\* a parser that answers the empty text where the choices are missing
LenientParseResponse(response) ==
    IF ~IsContainer(response)
    THEN Raise("TypeError", "argument is not iterable", "")
    ELSE IF Contains(response, "choices")
            /\ (response.t = "dict" => Truthy(response.d["choices"]))
    THEN FirstChoiceText(response)
    ELSE Return(PyStr(""))

ParseResponse(response) ==
    IF ~IsContainer(response)
    THEN Raise("TypeError", "argument is not iterable", "")
    ELSE IF Contains(response, "choices")
            /\ (response.t = "dict" => Truthy(response.d["choices"]))
    THEN FirstChoiceText(response)
    ELSE Raise("Exception", MsgMissingChoices, "")

----------------------------------------------------------------------------
(* The transport: what requests.post and the server can answer *)

\* the requests.exceptions.RequestException subclasses an attempt can raise:
\* connection refused, timeout, and raise_for_status() on a non-2xx status
TransportFailures == {"ConnectionError", "Timeout", "HTTPError"}

Fails(err) == [ok |-> FALSE, err |-> err]
\* a 2xx answer whose body is not JSON.  response.json() then raises
\* requests.exceptions.JSONDecodeError, which is a RequestException from
\* requests 2.27 on; older versions raise a plain json.JSONDecodeError
\* (a ValueError).  Both libraries are outcomes of the model.
NotJSON(isRequestException) ==
    [ok |-> TRUE, json |-> FALSE, isRequestException |-> isRequestException]
Answers(body) == [ok |-> TRUE, json |-> TRUE, body |-> body]

Choice(text) == PyDict([text |-> PyStr(text)])
Choices(l) == PyDict([choices |-> PyList(l)])

\* the parsed JSON bodies a 2xx answer carries in the model
ResponseBodies ==
    {Choices(<<Choice("A")>>),
     Choices(<<Choice("A"), Choice("B")>>),
     Choices(<<>>),
     Choices(<<PyDict([index |-> PyInt(0)])>>),
     PyDict(EmptyDict),
     PyDict([error |-> PyStr("busy")]),
     PyList(<<>>),
     None}

Outcomes ==
    {Fails(e) : e \in TransportFailures} \cup {NotJSON(b) : b \in BOOLEAN}
        \cup {Answers(b) : b \in ResponseBodies}

\* the attempt raised a requests.exceptions.RequestException inside the try
RaisesRequestException(o) ==
    \/ ~o.ok
    \/ o.ok /\ ~o.json /\ o.isRequestException

\* the cause dropped: every failure reported under the base class
LostCause(o) == "RequestException"

\* the exception `e` of the except clause, which the raise in that clause
\* formats into the message and chains as __context__
CauseOf(o) == IF o.ok THEN "JSONDecodeError" ELSE o.err

PostEvent(k, payload, o) ==
    [ev |-> "post", attempt |-> k, payload |-> payload, outcome |-> o]
SleepEvent(secs) == [ev |-> "sleep", secs |-> secs]

----------------------------------------------------------------------------
(* _make_request *)

\* raise Exception(f"vLLM API 请求失败: {e}")
RequestFailedError(cause) == Raise("Exception", MsgRequestFailed, cause)

\* raise Exception(f"vLLM 流式请求失败: {e}")
StreamRequestFailedError(cause) ==
    Raise("Exception", MsgStreamRequestFailed, cause)

\* a fixed delay in place of the exponential one
ConstantBackoffDelay(k) == 1

\* time.sleep(2 ** attempt)
BackoffDelay(k) == 2 ^ k

\* the last-attempt test, off by one
LateLastAttempt(k, max_retries) == k = max_retries

\* if attempt == self.max_retries - 1
IsLastAttempt(k, max_retries) == k = max_retries - 1

\* range(self.max_retries)
AttemptRange(max_retries) == 0 .. (max_retries - 1)

----------------------------------------------------------------------------
(* vllm_config: PRESET_CONFIGS and VLLMConfigManager *)

\* the params of each VLLMConfig in PRESET_CONFIGS; floats in hundredths
PRESET_CONFIGS ==
    [conservative |->
        [temperature |-> PyFloat(10), top_p |-> PyFloat(80),
         top_k |-> PyInt(10), repetition_penalty |-> PyFloat(110),
         max_tokens |-> PyInt(512)],
     balanced |->
        [temperature |-> PyFloat(70), top_p |-> PyFloat(90),
         top_k |-> PyInt(50), repetition_penalty |-> PyFloat(110),
         frequency_penalty |-> PyFloat(10), max_tokens |-> PyInt(1024)],
     creative |->
        [temperature |-> PyFloat(120), top_p |-> PyFloat(95),
         top_k |-> PyInt(100), repetition_penalty |-> PyFloat(105),
         presence_penalty |-> PyFloat(20), max_tokens |-> PyInt(2048)],
     precise |->
        [temperature |-> PyFloat(1), top_p |-> PyFloat(70),
         top_k |-> PyInt(5), repetition_penalty |-> PyFloat(120),
         frequency_penalty |-> PyFloat(30), max_tokens |-> PyInt(1024)],
     diverse |->
        [temperature |-> PyFloat(80), top_p |-> PyFloat(90),
         top_k |-> PyInt(80), repetition_penalty |-> PyFloat(130),
         frequency_penalty |-> PyFloat(50), presence_penalty |-> PyFloat(40),
         max_tokens |-> PyInt(1536)],
     beam_search |->
        [temperature |-> PyFloat(60), use_beam_search |-> PyBool(TRUE),
         best_of |-> PyInt(3), length_penalty |-> PyFloat(120),
         early_stopping |-> PyBool(TRUE), max_tokens |-> PyInt(1024)]]

PresetNames == DOMAIN PRESET_CONFIGS

\* the dict objects: the params dict of each preset, and the one dict the
\* caller owns
CallerDict == "caller"
NoRef == "none"

\* a number in hundredths, whether written as an int or as a float
Hundredths(v) == IF v.t = "float" THEN v.h ELSE 100 * v.i

\* the four checks of validate_config
ConfigCheck(k, v) ==
    CASE k = "temperature" -> 0 <= Hundredths(v) /\ Hundredths(v) <= 200
      [] k = "top_p" -> 0 <= Hundredths(v) /\ Hundredths(v) <= 100
      [] k = "top_k" -> Hundredths(v) >= 100
      [] k = "max_tokens" -> Hundredths(v) >= 100

\* validate_config: the error map, keyed by parameter; the message of an
\* entry carries the offending value
ValidateConfig(c) ==
    [k \in {j \in DOMAIN c \cap {"temperature", "top_p", "top_k", "max_tokens"} :
                ~ConfigCheck(j, c[j])} |-> c[k]]

\* the dict object itself handed out
SameObject(heap, name) == [heap |-> heap, ref |-> name]

\* dict.copy(): a new dict object with the entries of the preset's params
DictCopy(heap, name) ==
    [heap |-> [heap EXCEPT ![CallerDict] = heap[name]], ref |-> CallerDict]

NotValidated == [status |-> "none"]

NoConfig ==
    [heap |-> [o \in PresetNames \cup {CallerDict} |->
                  IF o \in PresetNames THEN PRESET_CONFIGS[o] ELSE EmptyDict],
     held |-> NoRef,
     name |-> "",
     returned |-> NoResult,
     errors |-> NotValidated,
     client |-> NoResult,
     edited |-> FALSE]

\* the preset names asked for: each preset, and a name that is no preset
AskedNames == PresetNames \cup {"fast"}

\* the assignments the caller makes to the mapping it was given
Edits ==
    {<<"temperature", PyFloat(250)>>, <<"top_k", PyInt(0)>>,
     <<"max_tokens", PyInt(0)>>}
Deletable == {"temperature"}

----------------------------------------------------------------------------
(* What the callers pass *)

Prompts == {PyStr("hello")}


\* the **kwargs mappings of the calls in the model
KwargsArgs ==
    {EmptyDict,
     [temperature |-> PyFloat(20)],
     [temperature |-> PyFloat(250)],
     [temperature |-> None],
     [seed |-> PyInt(42)],
     [stop_token_ids |-> PyList(<<9>>)],
     [stream |-> PyBool(TRUE)],
     [stream |-> PyBool(FALSE)],
     [foo |-> PyInt(1)],
     [top_k |-> PyInt(10), echo |-> PyBool(TRUE)]}

\* the (stop, **kwargs) pairs of the calls in the model
CallArgs ==
    {<<None, kw>> : kw \in KwargsArgs}
        \cup {<<PyList(<<>>), EmptyDict>>,
              <<PyList(<<"x">>), EmptyDict>>,
              <<PyList(<<"x">>), [temperature |-> PyFloat(20)]>>}

NoArgs == [prompt |-> None, stop |-> None, kwargs |-> EmptyDict]

\* the second thread with no operation in progress on instance slf
Idle2(slf) ==
    [self |-> slf, pc |-> "idle", mode |-> "none", args |-> NoArgs,
     params |-> EmptyDict, attempt |-> 0, trace |-> <<>>, result |-> NoResult]

----------------------------------------------------------------------------
(* Initial state: a constructed client, no operation in progress *)

Clients ==
    {Construct(None, None, PyFloat(70), r) : r \in CtorMaxRetries}
        \cup {Construct(PyList(<<"END">>), None, PyFloat(70), 2),
              Construct(None, PyList(<<7>>), PyFloat(70), 2),
              Construct(PyList(<<"END">>), PyList(<<7>>), PyFloat(0), 1)}

Init ==
    /\ self \in Clients
    /\ constructed = self
    /\ pc = "idle"
    /\ mode = "none"
    /\ args = NoArgs
    /\ params = EmptyDict
    /\ attempt = 0
    /\ trace = <<>>
    /\ consumed = <<>>
    /\ yielded = <<>>
    /\ connOpen = FALSE
    /\ result = NoResult
    /\ completed = 0
    /\ overridden = FALSE
    /\ other = Idle2(self)
    /\ config = NoConfig

----------------------------------------------------------------------------
(* complete(): _call, then the steps of _make_request and _parse_response *)

\* _call up to the entry of the retry loop.  A `stream` entry of **kwargs
\* binds to the stream parameter of _build_request_params.
Call(prompt, stop, kwargs) ==
    /\ pc = "idle"
    /\ completed < MaxCalls
    /\ LET final_stop == Or(stop, self.stop)
           stream == Get(kwargs, "stream", PyBool(FALSE))
           rest == Without(kwargs, {"stream"})
       IN /\ params' = BuildRequestParams(self, prompt, final_stop, stream, rest)
          /\ self' = SelfAfterBuild(self, final_stop, rest)
    /\ mode' = "call"
    /\ args' = [prompt |-> prompt, stop |-> stop, kwargs |-> kwargs]
    /\ pc' = "request"
    /\ attempt' = 0
    /\ UNCHANGED <<constructed, trace, consumed, yielded, connOpen, result,
                   completed, overridden, other, config>>

\* one iteration of the retry loop: the post, and on failure the except
\* clause with its raise or its sleep
Post(o) ==
    /\ pc = "request"
    /\ mode = "call"
    /\ attempt \in AttemptRange(self.max_retries)
    /\ LET ev == PostEvent(attempt, params, o) IN
       IF RaisesRequestException(o)
       THEN IF IsLastAttempt(attempt, self.max_retries)
            THEN /\ trace' = Append(trace, ev)
                 /\ result' = RequestFailedError(CauseOf(o))
                 /\ pc' = "done"
                 /\ UNCHANGED attempt
            ELSE /\ trace' = trace \o <<ev, SleepEvent(BackoffDelay(attempt))>>
                 /\ attempt' = attempt + 1
                 /\ UNCHANGED <<pc, result>>
       ELSE /\ trace' = Append(trace, ev)
            /\ result' = IF o.json THEN ParseResponse(o.body)
                         ELSE Raise("JSONDecodeError", "Expecting value", "")
            /\ pc' = "done"
            /\ UNCHANGED attempt
    /\ UNCHANGED <<self, constructed, mode, args,
                   params, consumed, yielded, connOpen,
                   completed, overridden, other, config>>

\* the retry loop ends without a return or a raise: _make_request returns
\* None, which _call hands to _parse_response
LoopExit ==
    /\ pc = "request"
    /\ mode = "call"
    /\ attempt \notin AttemptRange(self.max_retries)
    /\ result' = ParseResponse(None)
    /\ pc' = "done"
    /\ UNCHANGED <<self, constructed, mode, args,
                   params, attempt, trace, consumed, yielded, connOpen,
                   completed, overridden, other, config>>

\* the operation is over; its locals are dropped
Finish ==
    /\ pc = "done"
    /\ pc' = "idle"
    /\ mode' = "none"
    /\ args' = NoArgs
    /\ params' = EmptyDict
    /\ attempt' = 0
    /\ trace' = <<>>
    /\ consumed' = <<>>
    /\ yielded' = <<>>
    /\ connOpen' = FALSE
    /\ result' = NoResult
    /\ completed' = completed + 1
    /\ overridden' = (overridden \/ args.stop # None \/ args.kwargs # EmptyDict)
    /\ UNCHANGED <<self, constructed, other, config>>

----------------------------------------------------------------------------
(* stream(): _stream and _make_stream_request *)

\* transport lines as response.iter_lines() hands them out
BlankLine == [kind |-> "blank"]
\* a line that does not start with 'data: '
OtherLine == [kind |-> "other"]
\* 'data: [DONE]'
DoneLine == [kind |-> "data", done |-> TRUE]
\* 'data: ' followed by text that json.loads rejects
BadJSONLine == [kind |-> "data", done |-> FALSE, json |-> FALSE]
\* 'data: ' followed by the JSON text of v
Frame(v) == [kind |-> "data", done |-> FALSE, json |-> TRUE, v |-> v]

StreamLines ==
    {BlankLine, OtherLine, DoneLine, BadJSONLine,
     Frame(Choices(<<Choice("A")>>)),
     Frame(Choices(<<Choice("B")>>)),
     Frame(Choices(<<Choice("")>>)),
     Frame(Choices(<<>>)),
     Frame(PyInt(5))}

\* what the body of the `for line in response.iter_lines()` loop does with a
\* parsed frame: chunk_data['choices'][0].get('text', '')
FrameStep(chunk_data) ==
    IF ~IsContainer(chunk_data)
    THEN [act |-> "raise", cls |-> "TypeError"]
    ELSE IF ~Contains(chunk_data, "choices")
    THEN [act |-> "skip"]
    ELSE IF chunk_data.t # "dict"
    THEN [act |-> "raise", cls |-> "TypeError"]
    ELSE LET choices == chunk_data.d["choices"] IN
         IF ~Truthy(choices)
         THEN [act |-> "skip"]
         ELSE IF choices.t = "dict"
         THEN [act |-> "raise", cls |-> "KeyError"]
         ELSE IF choices.t # "list"
         THEN [act |-> "raise", cls |-> "TypeError"]
         ELSE LET first == choices.l[1] IN
              IF first.t # "dict"
              THEN [act |-> "raise", cls |-> "AttributeError"]
              ELSE LET text == Get(first.d, "text", PyStr("")) IN
                   IF Truthy(text)
                   THEN [act |-> "yield", text |-> text]
                   ELSE [act |-> "skip"]

\* a loop that steps over 'data: [DONE]' like over any unparseable line
IgnoresDone(line) ==
    IF line.kind # "data" THEN [act |-> "skip"]
    ELSE IF line.done THEN [act |-> "skip"]
    ELSE IF ~line.json THEN [act |-> "skip"]
    ELSE FrameStep(line.v)

\* one iteration of the loop over response.iter_lines()
LineStep(line) ==
    IF line.kind # "data" THEN [act |-> "skip"]
    ELSE IF line.done THEN [act |-> "break"]
    ELSE IF ~line.json THEN [act |-> "skip"]
    ELSE FrameStep(line.v)

\* _stream up to the point where the request is about to be sent.  stream=True
\* is passed by keyword next to **kwargs, so a `stream` entry of kwargs is a
\* TypeError (multiple values for keyword argument).
Stream(prompt, stop, kwargs) ==
    /\ pc = "idle"
    /\ completed < MaxCalls
    /\ mode' = "stream"
    /\ args' = [prompt |-> prompt, stop |-> stop, kwargs |-> kwargs]
    /\ attempt' = 0
    /\ IF "stream" \in DOMAIN kwargs
       THEN /\ result' = Raise("TypeError", "multiple values for stream", "")
            /\ pc' = "done"
            /\ UNCHANGED <<self, params>>
       ELSE LET final_stop == Or(stop, self.stop) IN
            /\ params' = BuildRequestParams(self, prompt, final_stop,
                                            PyBool(TRUE), kwargs)
            /\ self' = SelfAfterBuild(self, final_stop, kwargs)
            /\ pc' = "request"
            /\ UNCHANGED result
    /\ UNCHANGED <<constructed, trace, consumed, yielded, connOpen,
                   completed, overridden, other, config>>

\* requests.post(..., stream=True) and raise_for_status(): one request, and a
\* RequestException ends the call
StreamPostFails(err) ==
    /\ pc = "request"
    /\ mode = "stream"
    /\ trace' = Append(trace, PostEvent(0, params, Fails(err)))
    /\ result' = StreamRequestFailedError(err)
    /\ pc' = "done"
    /\ UNCHANGED <<self, constructed, mode, args,
                   params, attempt, consumed, yielded, connOpen,
                   completed, overridden, other, config>>

StreamPostOk ==
    /\ pc = "request"
    /\ mode = "stream"
    /\ trace' = Append(trace, PostEvent(0, params, [ok |-> TRUE]))
    /\ connOpen' = TRUE
    /\ pc' = "streaming"
    /\ UNCHANGED <<self, constructed, mode, args,
                   params, attempt, consumed, yielded, result,
                   completed, overridden, other, config>>

\* The method never calls response.close() and holds the response in no
\* `with` block.  When the generator is left with the body unread, the
\* connection stays open until the response object is garbage-collected,
\* which may or may not have happened: both are outcomes.
Unreleased == BOOLEAN

\* the consumer pulls and the server has sent another line: it is read and
\* handled
StreamNext(line) ==
    /\ pc = "streaming"
    /\ Len(consumed) < MaxLines
    /\ LET step == LineStep(line)
       IN /\ consumed' = Append(consumed, line)
          /\ yielded' = IF step.act = "yield" THEN Append(yielded, step.text)
                        ELSE yielded
          /\ CASE step.act = "break" ->
                    /\ result' = [status |-> "ended"]
                    /\ pc' = "done"
                    /\ connOpen' \in Unreleased
               [] step.act = "raise" ->
                    /\ result' = Raise(step.cls, "bad frame", "")
                    /\ pc' = "done"
                    /\ connOpen' \in Unreleased
               [] OTHER -> UNCHANGED <<pc, result, connOpen>>
    /\ UNCHANGED <<self, constructed, mode, args,
                   params, attempt, trace,
                   completed, overridden, other, config>>

\* the consumer pulls and the body is exhausted: urllib3 releases the
\* connection of a body read to its end, and the generator returns
StreamEnd ==
    /\ pc = "streaming"
    /\ result' = [status |-> "ended"]
    /\ connOpen' = FALSE
    /\ pc' = "done"
    /\ UNCHANGED <<self, constructed, mode, args,
                   params, attempt, trace, consumed, yielded,
                   completed, overridden, other, config>>

\* a transport failure that is answered by a wait and a new request
StreamBreaksAndRetries(err) ==
    /\ pc = "streaming"
    /\ Len(trace) < 3
    /\ trace' = Append(trace, SleepEvent(1))
    /\ consumed' = <<>>
    /\ yielded' = <<>>
    /\ connOpen' = FALSE
    /\ pc' = "request"
    /\ UNCHANGED <<self, constructed, mode, args, params, attempt, result,
                   completed, overridden, other, config>>

\* the consumer pulls and iter_lines() raises a RequestException: the
\* connection broke while the body was being read
StreamBreaks(err) ==
    /\ pc = "streaming"
    /\ result' = StreamRequestFailedError(err)
    /\ connOpen' = FALSE
    /\ pc' = "done"
    /\ UNCHANGED <<self, constructed, mode, args,
                   params, attempt, trace, consumed, yielded,
                   completed, overridden, other, config>>

\* the consumer stops pulling before the end of the sequence
Abandon ==
    /\ pc = "streaming"
    /\ result' = [status |-> "abandoned"]
    /\ pc' = "done"
    /\ connOpen' \in Unreleased
    /\ UNCHANGED <<self, constructed, mode, args,
                   params, attempt, trace, consumed, yielded,
                   completed, overridden, other, config>>

----------------------------------------------------------------------------

Next ==
    \/ \E p \in Prompts, a \in CallArgs : Call(p, a[1], a[2])
    \/ \E o \in Outcomes : Post(o)
    \/ LoopExit
    \/ \E p \in Prompts, a \in CallArgs : Stream(p, a[1], a[2])
    \/ \E e \in TransportFailures : StreamPostFails(e)
    \/ StreamPostOk
    \/ \E line \in StreamLines : StreamNext(line)
    \/ StreamEnd
    \/ StreamBreaks("ChunkedEncodingError")
    \/ Abandon
    \/ Finish

Spec == Init /\ [][Next]_vars

----------------------------------------------------------------------------
(* Construction on its own: the constructor applied to keyword arguments *)

FieldValue(f, x) == IF f \in FloatFields THEN PyFloat(x) ELSE PyInt(x)

\* both boundaries of the declared range of f and the values one unit
\* (0.01 for a float) beyond them
Probes(f) ==
    {FieldValue(f, x) : x \in {FieldRange[f][1] - 1, FieldRange[f][1],
                               FieldRange[f][2], FieldRange[f][2] + 1}}

NamedModel == [model_name |-> PyStr("m")]

\* the keyword arguments the constructor is applied to: one or two
\* constrained fields probed, and the model name given, empty or missing
CtorKwargs ==
    {NamedModel, EmptyDict, [model_name |-> PyStr("")],
     NamedModel @@ [logprobs |-> None],
     [temperature |-> PyFloat(201)]}
      \cup UNION {{NamedModel @@ (f :> v) : v \in Probes(f)} :
                    f \in DOMAIN FieldRange}
      \cup UNION {{NamedModel @@ (f :> v) @@ (g :> w) :
                        v \in Probes(f), w \in Probes(g)} :
                    f \in DOMAIN FieldRange, g \in DOMAIN FieldRange}

InitCtor ==
    /\ pc = "new"
    /\ mode = "construct"
    /\ args \in {[prompt |-> None, stop |-> None, kwargs |-> kw] : kw \in CtorKwargs}
    /\ self = Unconstructed
    /\ constructed = Unconstructed
    /\ params = EmptyDict
    /\ attempt = 0
    /\ trace = <<>>
    /\ consumed = <<>>
    /\ yielded = <<>>
    /\ connOpen = FALSE
    /\ result = NoResult
    /\ completed = 0
    /\ overridden = FALSE
    /\ other = Idle2(Unconstructed)
    /\ config = NoConfig

\* CustomVLLMWrapper(**kwargs): the instance, or one ValidationError
New ==
    /\ pc = "new"
    /\ LET errors == CtorErrors(args.kwargs) IN
       IF errors = {}
       THEN /\ self' = Instance(args.kwargs)
            /\ constructed' = Instance(args.kwargs)
            /\ pc' = "idle"
            /\ UNCHANGED result
       ELSE /\ result' = ValidationError(errors)
            /\ pc' = "done"
            /\ UNCHANGED <<self, constructed>>
    /\ UNCHANGED <<mode, args, params, attempt, trace, consumed, yielded,
                   connOpen, completed, overridden, other, config>>

NextCtor == New

SpecCtor == InitCtor /\ [][NextCtor]_vars

----------------------------------------------------------------------------
(* Two operations at once: a second thread runs complete() on an instance   *)
(* constructed with the same parameters, interleaved with the first thread  *)

ConcClients ==
    {Construct(None, None, PyFloat(70), 2),
     Construct(None, None, PyFloat(70), 0),
     Construct(PyList(<<"END">>), PyList(<<7>>), PyFloat(0), 1)}

ConcArgs ==
    {<<None, EmptyDict>>,
     <<None, [temperature |-> PyFloat(20)]>>,
     <<PyList(<<"x">>), [seed |-> PyInt(42)]>>}

ConcOutcomes ==
    {Fails("Timeout"), Fails("ConnectionError"),
     Answers(Choices(<<Choice("A")>>)), Answers(PyDict(EmptyDict))}

ConcLines == {Frame(Choices(<<Choice("A")>>)), DoneLine}

InitConc ==
    /\ self \in ConcClients
    /\ constructed = self
    /\ pc = "idle"
    /\ mode = "none"
    /\ args = NoArgs
    /\ params = EmptyDict
    /\ attempt = 0
    /\ trace = <<>>
    /\ consumed = <<>>
    /\ yielded = <<>>
    /\ connOpen = FALSE
    /\ result = NoResult
    /\ completed = 0
    /\ overridden = FALSE
    /\ other = Idle2(self)
    /\ config = NoConfig

Thread1 == <<self, constructed, pc, mode, args, params, attempt, trace,
             consumed, yielded, connOpen, result, completed, overridden>>

\* _call on the second thread, up to the entry of the retry loop
Call2(prompt, stop, kwargs) ==
    /\ other.pc = "idle"
    /\ LET final_stop == Or(stop, other.self.stop)
           stream == Get(kwargs, "stream", PyBool(FALSE))
           rest == Without(kwargs, {"stream"})
       IN other' = [other EXCEPT
             !.self = SelfAfterBuild(other.self, final_stop, rest),
             !.params = BuildRequestParams(other.self, prompt, final_stop,
                                           stream, rest),
             !.mode = "call",
             !.args = [prompt |-> prompt, stop |-> stop, kwargs |-> kwargs],
             !.pc = "request",
             !.attempt = 0]
    /\ UNCHANGED <<Thread1, config>>

\* a retry loop whose counter is the one of the first thread
SharedCounterPost2(o) ==
    /\ other.pc = "request"
    /\ other.mode = "call"
    /\ attempt \in AttemptRange(other.self.max_retries)
    /\ LET ev == PostEvent(attempt, other.params, o) IN
       IF RaisesRequestException(o)
       THEN IF IsLastAttempt(attempt, other.self.max_retries)
            THEN /\ other' = [other EXCEPT
                        !.trace = Append(@, ev),
                        !.result = RequestFailedError(CauseOf(o)),
                        !.pc = "done"]
                 /\ UNCHANGED attempt
            ELSE /\ other' = [other EXCEPT
                        !.trace = @ \o <<ev, SleepEvent(BackoffDelay(attempt))>>]
                 /\ attempt' = attempt + 1
       ELSE /\ other' = [other EXCEPT
                   !.trace = Append(@, ev),
                   !.result = IF o.json THEN ParseResponse(o.body)
                              ELSE Raise("JSONDecodeError", "Expecting value", ""),
                   !.pc = "done"]
            /\ UNCHANGED attempt
    /\ UNCHANGED <<self, constructed, pc, mode, args, params, trace, consumed,
                   yielded, connOpen, result, completed, overridden, config>>

\* one iteration of the retry loop on the second thread
Post2(o) ==
    /\ other.pc = "request"
    /\ other.mode = "call"
    /\ other.attempt \in AttemptRange(other.self.max_retries)
    /\ LET ev == PostEvent(other.attempt, other.params, o) IN
       IF RaisesRequestException(o)
       THEN IF IsLastAttempt(other.attempt, other.self.max_retries)
            THEN other' = [other EXCEPT
                    !.trace = Append(@, ev),
                    !.result = RequestFailedError(CauseOf(o)),
                    !.pc = "done"]
            ELSE other' = [other EXCEPT
                    !.trace = @ \o <<ev, SleepEvent(BackoffDelay(other.attempt))>>,
                    !.attempt = @ + 1]
       ELSE other' = [other EXCEPT
               !.trace = Append(@, ev),
               !.result = IF o.json THEN ParseResponse(o.body)
                          ELSE Raise("JSONDecodeError", "Expecting value", ""),
               !.pc = "done"]
    /\ UNCHANGED <<Thread1, config>>

\* the retry loop of the second thread ends without a return or a raise
LoopExit2 ==
    /\ other.pc = "request"
    /\ other.mode = "call"
    /\ other.attempt \notin AttemptRange(other.self.max_retries)
    /\ other' = [other EXCEPT !.result = ParseResponse(None), !.pc = "done"]
    /\ UNCHANGED <<Thread1, config>>

\* the operation of the second thread is over; its locals are dropped
Finish2 ==
    /\ other.pc = "done"
    /\ other' = Idle2(other.self)
    /\ UNCHANGED <<Thread1, config>>

NextConc ==
    \/ \E p \in Prompts, a \in ConcArgs : Call(p, a[1], a[2])
    \/ \E o \in ConcOutcomes : Post(o)
    \/ LoopExit
    \/ \E p \in Prompts, a \in ConcArgs : Stream(p, a[1], a[2])
    \/ StreamPostFails("Timeout")
    \/ StreamPostOk
    \/ \E line \in ConcLines : StreamNext(line)
    \/ StreamEnd
    \/ StreamBreaks("ChunkedEncodingError")
    \/ Abandon
    \/ Finish
    \/ \E p \in Prompts, a \in ConcArgs : Call2(p, a[1], a[2])
    \/ \E o \in ConcOutcomes : Post2(o)
    \/ LoopExit2
    \/ Finish2

SpecConc == InitConc /\ [][NextConc]_vars

----------------------------------------------------------------------------
(* Overrides at the edges of the declared ranges, and stop lists that are   *)
(* unset, empty or non-empty on either side                                  *)

StopLists == {None, PyList(<<>>), PyList(<<"END">>)}

OvrClients ==
    {Construct(s, None, PyFloat(70), 2) : s \in StopLists}
        \cup {Construct(PyList(<<"END">>), PyList(<<7>>), PyFloat(0), 1)}

\* one constrained parameter overridden, at and beyond each end of its range
OvrKwargs ==
    {EmptyDict} \cup UNION {{(f :> v) : v \in Probes(f)} : f \in DOMAIN FieldRange}

OvrArgs ==
    {<<None, kw>> : kw \in OvrKwargs}
        \cup {<<PyList(<<>>), EmptyDict>>,
              <<PyList(<<"x">>), EmptyDict>>,
              <<PyList(<<>>), [top_k |-> PyInt(0)]>>}

OvrOutcomes == {Fails("Timeout"), Answers(Choices(<<Choice("A")>>))}

InitOvr ==
    /\ self \in OvrClients
    /\ constructed = self
    /\ pc = "idle"
    /\ mode = "none"
    /\ args = NoArgs
    /\ params = EmptyDict
    /\ attempt = 0
    /\ trace = <<>>
    /\ consumed = <<>>
    /\ yielded = <<>>
    /\ connOpen = FALSE
    /\ result = NoResult
    /\ completed = 0
    /\ overridden = FALSE
    /\ other = Idle2(self)
    /\ config = NoConfig

NextOvr ==
    \/ \E p \in Prompts, a \in OvrArgs : Call(p, a[1], a[2])
    \/ \E o \in OvrOutcomes : Post(o)
    \/ \E p \in Prompts, a \in OvrArgs : Stream(p, a[1], a[2])
    \/ StreamPostFails("Timeout")
    \/ StreamPostOk
    \/ StreamEnd
    \/ Finish

SpecOvr == InitOvr /\ [][NextOvr]_vars

----------------------------------------------------------------------------
(* vllm_config: the operations of the caller of VLLMConfigManager *)

InitPreset ==
    /\ self = Unconstructed
    /\ constructed = Unconstructed
    /\ pc = "idle"
    /\ mode = "none"
    /\ args = NoArgs
    /\ params = EmptyDict
    /\ attempt = 0
    /\ trace = <<>>
    /\ consumed = <<>>
    /\ yielded = <<>>
    /\ connOpen = FALSE
    /\ result = NoResult
    /\ completed = 0
    /\ overridden = FALSE
    /\ other = Idle2(Unconstructed)
    /\ config = NoConfig

Client == <<self, constructed, pc, mode, args, params, attempt, trace,
            consumed, yielded, connOpen, result, completed, overridden, other>>

\* VLLMConfigManager.get_preset_config(preset_name)
GetPresetConfig(preset_name) ==
    /\ IF preset_name \notin PresetNames
       THEN config' = [config EXCEPT
                !.held = NoRef,
                !.name = preset_name,
                !.returned = Raise("ValueError", "unknown preset", ""),
                !.errors = NotValidated,
                !.client = NoResult]
       ELSE LET got == DictCopy(config.heap, preset_name) IN
            config' = [config EXCEPT
                !.heap = got.heap,
                !.held = got.ref,
                !.name = preset_name,
                !.returned = Return(got.heap[got.ref]),
                !.errors = NotValidated,
                !.client = NoResult]
    /\ UNCHANGED Client

\* config[k] = v on the mapping the caller holds
SetItem(k, v) ==
    /\ config.held # NoRef
    /\ config' = [config EXCEPT
            !.heap[config.held] =
                [j \in DOMAIN @ \cup {k} |-> IF j = k THEN v ELSE @[j]],
            !.edited = TRUE]
    /\ UNCHANGED Client

\* del config[k] on the mapping the caller holds
DelItem(k) ==
    /\ config.held # NoRef
    /\ k \in DOMAIN config.heap[config.held]
    /\ config' = [config EXCEPT
            !.heap[config.held] = Without(@, {k}),
            !.edited = TRUE]
    /\ UNCHANGED Client

\* VLLMConfigManager.validate_config(config) on the mapping the caller holds
Validate ==
    /\ config.held # NoRef
    /\ config' = [config EXCEPT
            !.errors = Return(ValidateConfig(config.heap[config.held]))]
    /\ UNCHANGED Client

\* CustomVLLMWrapper(model_name="m", **config) with the mapping the caller
\* holds
NewFromConfig ==
    /\ config.held # NoRef
    /\ LET kwargs == NamedModel @@ config.heap[config.held] IN
       config' = [config EXCEPT
            !.client = IF CtorErrors(kwargs) = {}
                       THEN Return(Instance(kwargs))
                       ELSE ValidationError(CtorErrors(kwargs))]
    /\ UNCHANGED Client

NextPreset ==
    \/ \E name \in AskedNames : GetPresetConfig(name)
    \/ \E e \in Edits : SetItem(e[1], e[2])
    \/ \E k \in Deletable : DelItem(k)
    \/ Validate
    \/ NewFromConfig

SpecPreset == InitPreset /\ [][NextPreset]_vars

----------------------------------------------------------------------------
(* Reading the trace of the operation in progress *)

IsPost(e) == e.ev = "post"
IsSleep(e) == e.ev = "sleep"
Posts == SelectSeq(trace, IsPost)
Sleeps == SelectSeq(trace, IsSleep)
Waits == [i \in 1 .. Len(Sleeps) |-> Sleeps[i].secs]

\* the failure raised where the retries are exhausted or the stream breaks
IsRequestFailed(r) ==
    /\ r.status = "raised"
    /\ r.exc.msg \in {MsgRequestFailed, MsgStreamRequestFailed}

\* the failure raised by _parse_response for a body of the wrong shape
IsMalformedResponse(r) ==
    /\ r.status = "raised"
    /\ r.exc.msg \in {MsgMissingChoices, MsgParseFailed}

\* every request of the call so far met a transport failure
AllFailed == \A i \in DOMAIN Posts : ~Posts[i].outcome.ok

\* 2^0, 2^1, ..., 2^(n-1)
Doubling(n) == [i \in 1 .. n |-> 2 ^ (i - 1)]

\* the k-th request (from 0) is trace[2k+1] and the wait after it trace[2k+2]
RetriesAlternate ==
    \A i \in DOMAIN trace :
        IF i % 2 = 1
        THEN IsPost(trace[i]) /\ trace[i].attempt = (i - 1) \div 2
        ELSE /\ IsSleep(trace[i])
             /\ ~trace[i - 1].outcome.ok
             /\ i < Len(trace) \/ pc = "request"

\* a JSON object without `choices`, or with an empty `choices` list
LacksChoices(body) ==
    /\ body.t = "dict"
    /\ \/ "choices" \notin DOMAIN body.d
       \/ body.d["choices"] = PyList(<<>>)

\* a JSON object whose first choice has a text
HasFirstText(body) ==
    /\ body.t = "dict"
    /\ "choices" \in DOMAIN body.d
    /\ body.d["choices"].t = "list"
    /\ body.d["choices"].l # <<>>
    /\ body.d["choices"].l[1].t = "dict"
    /\ "text" \in DOMAIN body.d["choices"].l[1].d

FirstText(body) == body.d["choices"].l[1].d["text"]

----------------------------------------------------------------------------
(* Retry and backoff of complete() *)

\* C1: with max_retries = N >= 1 and a transport that fails every attempt,
\* complete() sends exactly N requests and then fails with RequestFailed; it
\* waits N-1 times, 2^k after the failed attempt k, and not after the last.
C1_RetryExhaustion ==
    (mode = "call" /\ self.max_retries >= 1 /\ AllFailed) =>
        /\ RetriesAlternate
        /\ Waits = Doubling(Len(Sleeps))
        /\ Len(Posts) <= self.max_retries
        /\ pc = "request" => Len(Sleeps) = Len(Posts)
        /\ pc = "done" =>
              /\ Len(Posts) = self.max_retries
              /\ Len(Sleeps) = self.max_retries - 1
              /\ IsPost(trace[Len(trace)])
              /\ IsRequestFailed(result)

C1_Witness ==
    /\ mode = "call" /\ pc = "done" /\ self.max_retries = 3 /\ AllFailed
    /\ Len(Posts) = 3
    /\ Waits = <<1, 2>>
    /\ IsRequestFailed(result)

\* C2: when the first f attempts fail and attempt f+1 is answered, with
\* f < max_retries, complete() returns the text of that answer after f+1
\* requests and f waits 2^0 < 2^1 < ... < 2^(f-1), each one between a failed
\* attempt and the next attempt.
C2_RetryThenSuccess ==
    (/\ mode = "call" /\ pc = "done" /\ Posts # <<>>
     /\ LET last == Posts[Len(Posts)].outcome IN
        /\ last.ok /\ last.json /\ HasFirstText(last.body)
        /\ \A i \in 1 .. Len(Posts) - 1 : ~Posts[i].outcome.ok) =>
        LET f == Len(Posts) - 1 IN
        /\ f < self.max_retries
        /\ result = Return(FirstText(Posts[Len(Posts)].outcome.body))
        /\ Waits = Doubling(f)
        /\ \A i \in 1 .. f - 1 : Waits[i] < Waits[i + 1]
        /\ RetriesAlternate
        /\ IsPost(trace[Len(trace)])

C2_Witness ==
    /\ mode = "call" /\ pc = "done" /\ self.max_retries = 3
    /\ Len(Posts) = 3
    /\ ~Posts[1].outcome.ok /\ ~Posts[2].outcome.ok
    /\ Posts[3].outcome = Answers(Choices(<<Choice("A")>>))
    /\ Waits = <<1, 2>>
    /\ result = Return(PyStr("A"))

----------------------------------------------------------------------------
(* Malformed answers *)

\* C3: a 2xx answer whose parsed body has no `choices` or an empty `choices`
\* list makes complete() fail with MalformedResponse and not RequestFailed;
\* the answer is not retried: nothing is sent and no wait happens after it,
\* so an answer to the first request leaves exactly one request and no wait.
C3_MissingChoicesNotRetried ==
    (mode = "call" /\ self.max_retries >= 1) =>
        \A i \in DOMAIN trace :
            (/\ IsPost(trace[i])
             /\ trace[i].outcome.ok /\ trace[i].outcome.json
             /\ LacksChoices(trace[i].outcome.body)) =>
                /\ i = Len(trace)
                /\ pc = "done"
                /\ IsMalformedResponse(result)
                /\ ~IsRequestFailed(result)
                /\ i = 1 => (Len(Posts) = 1 /\ Sleeps = <<>>)

C3_Witness ==
    /\ mode = "call" /\ pc = "done" /\ self.max_retries = 3
    /\ Len(trace) = 1
    /\ trace[1].outcome = Answers(PyDict(EmptyDict))
    /\ IsMalformedResponse(result)

\* C4: a 2xx answer whose body is not JSON makes complete() fail with
\* MalformedResponse and is not retried: nothing is sent and no wait happens
\* after it.
C4_NotJSONNotRetried ==
    mode = "call" =>
        \A i \in DOMAIN trace :
            (/\ IsPost(trace[i])
             /\ trace[i].outcome.ok /\ ~trace[i].outcome.json) =>
                /\ i = Len(trace)
                /\ pc = "done"
                /\ IsMalformedResponse(result)

\* C5: every failure is of one of the kinds RequestFailed and
\* MalformedResponse (ValidationError belongs to construction), and the kind,
\* the class of the exception, tells the two apart: a transport failure and a
\* body of the wrong shape never raise the same class.
C5_DistinctErrorKinds ==
    result.status = "raised" =>
        /\ IsRequestFailed(result) \/ IsMalformedResponse(result)
        /\ IsRequestFailed(result) =>
              result.exc.cls # ParseResponse(PyDict(EmptyDict)).exc.cls
        /\ IsMalformedResponse(result) =>
              result.exc.cls # RequestFailedError("").exc.cls

\* C6: for every max_retries the constructor accepts, 0 and negative values
\* included, complete() either returns the text of the first choice of a 2xx
\* answer it received, or fails with RequestFailed or MalformedResponse.
C6_AllOrNothing ==
    (mode = "call" /\ pc = "done") =>
        \/ /\ result.status = "returned"
           /\ \E i \in DOMAIN Posts :
                 /\ Posts[i].outcome.ok /\ Posts[i].outcome.json
                 /\ HasFirstText(Posts[i].outcome.body)
                 /\ result.value = FirstText(Posts[i].outcome.body)
        \/ IsRequestFailed(result)
        \/ IsMalformedResponse(result)

----------------------------------------------------------------------------
(* The outgoing payload *)

\* the payload of the operation in progress has been built
Built == pc \in {"request", "streaming", "done"} /\ params # EmptyDict

\* the request parameters of the client
RequestParameters == KwargsParams \cup {"stop", "stop_token_ids"}

\* whether the caller supplied an override for parameter k, and its value
Supplied(k) ==
    IF k = "stop" THEN args.stop # None ELSE k \in DOMAIN args.kwargs
Override(k) == IF k = "stop" THEN args.stop ELSE args.kwargs[k]

\* override if supplied, else instance default
Effective(k) == IF Supplied(k) THEN Override(k) ELSE self[k]

\* C7: for each request parameter, stop and stop_token_ids included, the
\* payload carries the override if one was supplied and the instance default
\* otherwise.
C7_OverridePrecedence ==
    Built =>
        \A k \in RequestParameters :
            Effective(k) # None =>
                k \in DOMAIN params /\ params[k] = Effective(k)

\* C8: no payload carries a key with a null value; a parameter whose
\* effective value is unset (stop, stop_token_ids, seed, logprobs, or an
\* override of None) is missing from the payload.
C8_NoNullInPayload ==
    /\ Built =>
          /\ \A k \in DOMAIN params : params[k] # None
          /\ \A k \in KwargsParams :
                Get(args.kwargs, k, self[k]) = None => k \notin DOMAIN params
          /\ Or(args.stop, self.stop) = None => "stop" \notin DOMAIN params
          /\ self.stop_token_ids = None => "stop_token_ids" \notin DOMAIN params
    /\ \A i \in DOMAIN Posts :
          \A k \in DOMAIN Posts[i].payload : Posts[i].payload[k] # None

C8_Witness ==
    /\ Posts # <<>>
    /\ args.kwargs = [temperature |-> None]
    /\ self.stop = None /\ args.stop = None
    /\ DOMAIN Posts[1].payload =
          PayloadKeys \ {"temperature", "stop", "stop_token_ids", "seed",
                         "logprobs"}

\* C9: every payload complete() sends has stream = false and every payload
\* stream() sends has stream = true, whatever overrides are passed.
C9_StreamFlag ==
    \A i \in DOMAIN Posts :
        /\ "stream" \in DOMAIN Posts[i].payload
        /\ Posts[i].payload["stream"] = PyBool(mode = "stream")

\* C10: after any sequence of complete() and stream() calls with overrides,
\* every field of the instance has the value it had after construction, and
\* a call without overrides builds the payload it would have built before.
C10_ConfigurationUnchanged ==
    /\ self = constructed
    /\ (Built /\ args.stop = None /\ args.kwargs = EmptyDict) =>
          params = BuildRequestParams(constructed, args.prompt,
                                      constructed.stop,
                                      PyBool(mode = "stream"), EmptyDict)

C10_Witness ==
    /\ completed >= 1 /\ overridden
    /\ Built /\ args.stop = None /\ args.kwargs = EmptyDict
    /\ self = constructed

----------------------------------------------------------------------------
(* Construction *)

\* the inclusive ranges as the specification states them, floats in hundredths
DeclaredRange ==
    [temperature |-> [lo |-> 0, hi |-> 200],
     top_p |-> [lo |-> 0, hi |-> 100],
     top_k |-> [lo |-> 1, hi |-> 100],
     max_tokens |-> [lo |-> 1, hi |-> 4096],
     repetition_penalty |-> [lo |-> 10, hi |-> 200],
     frequency_penalty |-> [lo |-> -200, hi |-> 200],
     presence_penalty |-> [lo |-> -200, hi |-> 200],
     min_p |-> [lo |-> 0, hi |-> 100],
     best_of |-> [lo |-> 1, hi |-> 20],
     n |-> [lo |-> 1, hi |-> 10],
     length_penalty |-> [lo |-> 10, hi |-> 200],
     logprobs |-> [lo |-> 0, hi |-> 20]]

\* the given fields whose value lies outside the stated range
OutOfDeclaredRange(kwargs) ==
    {f \in DOMAIN DeclaredRange \cap DOMAIN kwargs :
        /\ kwargs[f] # None
        /\ \/ Num(kwargs[f]) < DeclaredRange[f].lo
           \/ Num(kwargs[f]) > DeclaredRange[f].hi}

Constructing == mode = "construct" /\ pc # "new"

\* C11: construction with a model name fails with ValidationError exactly
\* when a range-constrained parameter is outside its inclusive range
\* (boundaries pass, one unit beyond fails, absent logprobs passes), and the
\* one error lists every out-of-range field.
C11_RangeValidation ==
    (Constructing /\ "model_name" \in DOMAIN args.kwargs) =>
        LET bad == OutOfDeclaredRange(args.kwargs) IN
        /\ result.status = "raised" <=> bad # {}
        /\ bad # {} =>
              /\ result.exc.cls = "ValidationError"
              /\ result.exc.fields = bad
              /\ self = Unconstructed
        /\ bad = {} =>
              /\ pc = "idle"
              /\ \A f \in DOMAIN args.kwargs : self[f] = args.kwargs[f]

C11_Witness ==
    /\ Constructing
    /\ args.kwargs = NamedModel @@ [temperature |-> PyFloat(201), top_k |-> PyInt(0)]
    /\ result.status = "raised"
    /\ result.exc.fields = {"temperature", "top_k"}

\* C12: construction without a model identifier, or with the empty string as
\* model identifier, fails.
C12_ModelNameRequiredNonEmpty ==
    (/\ Constructing
     /\ \/ "model_name" \notin DOMAIN args.kwargs
        \/ args.kwargs["model_name"] = PyStr("")) =>
        /\ result.status = "raised"
        /\ result.exc.cls = "ValidationError"

----------------------------------------------------------------------------
(* The streamed sequence *)

\* a data line that carries a JSON object whose first choice has a
\* non-empty text
Qualifies(line) ==
    /\ line.kind = "data"
    /\ ~line.done
    /\ line.json
    /\ HasFirstText(line.v)
    /\ Truthy(FirstText(line.v))

\* the texts of the qualifying lines, in order
ExpectedFragments(ls) ==
    LET q == SelectSeq(ls, Qualifies) IN
    [i \in 1 .. Len(q) |-> FirstText(q[i].v)]

\* a data line other than [DONE] that is not a well-formed frame: not JSON,
\* or JSON that is not an object whose `choices`, if any, lists objects
Malformed(line) ==
    /\ line.kind = "data"
    /\ ~line.done
    /\ \/ ~line.json
       \/ line.v.t # "dict"
       \/ /\ "choices" \in DOMAIN line.v.d
          /\ \/ line.v.d["choices"].t # "list"
             \/ \E i \in DOMAIN line.v.d["choices"].l :
                    line.v.d["choices"].l[i].t # "dict"

\* C13: the first `data: [DONE]` line ends the sequence normally: it is the
\* last line read, the fragments are those of the lines before it, and the
\* sequence ends without an error.
C13_DoneEndsStream ==
    mode = "stream" =>
        \A i \in DOMAIN consumed :
            consumed[i] = DoneLine =>
                /\ i = Len(consumed)
                /\ pc = "done"
                /\ result.status = "ended"
                /\ yielded = ExpectedFragments(SubSeq(consumed, 1, i - 1))

C13_Witness ==
    /\ mode = "stream" /\ pc = "done"
    /\ consumed = <<Frame(Choices(<<Choice("A")>>)), DoneLine>>
    /\ yielded = <<PyStr("A")>>
    /\ result.status = "ended"

\* C14: a malformed frame never aborts the stream: the line is skipped and
\* no error reaches the caller, who sees an error only when the connection
\* fails.
C14_MalformedFrameSkipped ==
    mode = "stream" =>
        \A i \in DOMAIN consumed :
            Malformed(consumed[i]) =>
                ~(/\ i = Len(consumed)
                  /\ result.status = "raised"
                  /\ ~IsRequestFailed(result))

\* C15: the yielded sequence is the sequence of non-empty first-choice texts
\* of the data lines before the first [DONE]; every other line contributes
\* nothing and raises nothing, so reading goes on until [DONE], the end of
\* the body, a connection failure or the consumer's leaving.
C15_StreamIsFilter ==
    mode = "stream" =>
        /\ yielded = ExpectedFragments(consumed)
        /\ (pc = "done" /\ consumed # <<>>) =>
              \/ result.status \in {"ended", "abandoned"}
              \/ IsRequestFailed(result)

\* C16: stream() issues at most one request and never waits; a failure of
\* the request or of the connection while lines are read ends the call with
\* RequestFailed, and the fragments yielded before it stay yielded.
C16_StreamSingleRequest ==
    /\ [](mode = "stream" =>
            /\ Len(Posts) <= 1
            /\ Sleeps = <<>>
            /\ (Posts # <<>> /\ ~Posts[1].outcome.ok) =>
                  (pc = "done" /\ IsRequestFailed(result) /\ consumed = <<>>)
            /\ (pc = "done" /\ IsRequestFailed(result)) => Len(Posts) = 1)
    /\ [][pc = "streaming" =>
            /\ Len(yielded') >= Len(yielded)
            /\ SubSeq(yielded', 1, Len(yielded)) = yielded]_vars

C16_Witness ==
    /\ mode = "stream" /\ pc = "done"
    /\ IsRequestFailed(result)
    /\ consumed # <<>>
    /\ yielded = <<PyStr("A")>>
    /\ Len(Posts) = 1

\* C17: once a stream() call has ended, by exhaustion, by [DONE], by an
\* error or by the consumer's leaving, its connection is closed.
C17_ConnectionClosedOnExit ==
    (mode = "stream" /\ pc = "done") => ~connOpen

----------------------------------------------------------------------------
(* The cause of a request failure *)

\* C19: when complete() fails after max_retries transport failures, the error
\* carries the cause of the last attempt, so timeout, connection refusal and
\* HTTP status error are told apart.
C19_LastCauseWrapped ==
    (/\ mode = "call" /\ pc = "done" /\ IsRequestFailed(result)
     /\ ~Posts[Len(Posts)].outcome.ok) =>
        /\ Len(Posts) = self.max_retries
        /\ result.exc.cause = Posts[Len(Posts)].outcome.err
        /\ result.exc.cause \in TransportFailures

C19_Witness ==
    /\ mode = "call" /\ pc = "done" /\ IsRequestFailed(result)
    /\ Len(Posts) = 2
    /\ Posts[1].outcome = Fails("Timeout")
    /\ Posts[2].outcome = Fails("ConnectionError")
    /\ result.exc.cause = "ConnectionError"

----------------------------------------------------------------------------
(* Two calls in flight at once *)

PostsOf(tr) == SelectSeq(tr, IsPost)
SleepsOf(tr) == SelectSeq(tr, IsSleep)

\* the locals of the operation of the first thread, as a record
Thread1Call ==
    [self |-> self, pc |-> pc, mode |-> mode, args |-> args,
     params |-> params, attempt |-> attempt, trace |-> trace,
     result |-> result]

\* the payload that the arguments of operation fr give on configuration cfg
OwnPayload(cfg, fr) ==
    IF fr.mode = "stream"
    THEN BuildRequestParams(cfg, fr.args.prompt, Or(fr.args.stop, cfg.stop),
                            PyBool(TRUE), fr.args.kwargs)
    ELSE BuildRequestParams(cfg, fr.args.prompt, Or(fr.args.stop, cfg.stop),
                            Get(fr.args.kwargs, "stream", PyBool(FALSE)),
                            Without(fr.args.kwargs, {"stream"}))

\* what complete() ends with, given the outcomes of its own requests
OwnResult(ps) ==
    IF ps = <<>> THEN ParseResponse(None)
    ELSE LET o == ps[Len(ps)].outcome IN
         IF RaisesRequestException(o) THEN RequestFailedError(CauseOf(o))
         ELSE IF o.json THEN ParseResponse(o.body)
         ELSE Raise("JSONDecodeError", "Expecting value", "")

\* payload, retry counter, waits and result of operation fr follow from its
\* own arguments and the outcomes of its own requests
OwnInputsOnly(cfg, fr) ==
    LET ps == PostsOf(fr.trace)
        ss == SleepsOf(fr.trace)
        failed == {i \in DOMAIN ps : RaisesRequestException(ps[i].outcome)}
    IN /\ fr.mode \in {"call", "stream"} =>
            /\ fr.params = OwnPayload(cfg, fr)
            /\ \A i \in DOMAIN ps : ps[i].payload = OwnPayload(cfg, fr)
       /\ fr.mode = "call" =>
            /\ \A i \in DOMAIN ps : ps[i].attempt = i - 1
            /\ fr.attempt = Len(ss)
            /\ Len(ss) = Cardinality(failed)
                         - (IF fr.pc = "done" /\ failed # {} /\ Len(ps) \in failed
                            THEN 1 ELSE 0)
            /\ [i \in 1 .. Len(ss) |-> ss[i].secs] = Doubling(Len(ss))
            /\ fr.pc = "done" => fr.result = OwnResult(ps)
            /\ fr.pc = "request" => fr.result = NoResult

\* C18: when two operations run on the same client at once, in every
\* interleaving the payload, the retry counter, the waits and the result of
\* each follow from its own prompt, overrides and transport outcomes alone,
\* and the configuration of the client stays as constructed.
C18_ConcurrentCallsIndependent ==
    /\ self = constructed
    /\ other.self = constructed
    /\ OwnInputsOnly(constructed, Thread1Call)
    /\ OwnInputsOnly(constructed, other)
    /\ mode = "stream" => yielded = ExpectedFragments(consumed)

C18_Witness ==
    /\ mode = "call" /\ pc = "done"
    /\ result.status = "returned"
    /\ attempt = 1
    /\ other.mode = "call" /\ other.pc = "done"
    /\ IsRequestFailed(other.result)
    /\ other.attempt = 1
    /\ args # other.args
    /\ C18_ConcurrentCallsIndependent

----------------------------------------------------------------------------
(* Overrides and the payload *)

\* the constrained parameters the caller overrides with a value
RangeOverrides ==
    {f \in DOMAIN FieldRange : f \in DOMAIN args.kwargs /\ args.kwargs[f] # None}

\* C21: an override of a range-constrained parameter is not range-checked:
\* whatever its value, inside or outside the declared range, complete() and
\* stream() raise no validation error and the payload carries exactly that
\* value; a payload can carry a value the constructor rejects.
C21_OverridesNotRangeChecked ==
    /\ result.status = "raised" => result.exc.cls # "ValidationError"
    /\ Built =>
          \A f \in RangeOverrides :
              f \in DOMAIN params /\ params[f] = args.kwargs[f]
    /\ \A i \in DOMAIN Posts :
          \A f \in RangeOverrides :
              /\ f \in DOMAIN Posts[i].payload
              /\ Posts[i].payload[f] = args.kwargs[f]

C21_Witness ==
    /\ mode = "stream" /\ pc = "streaming"
    /\ Posts # <<>>
    /\ \E f \in RangeOverrides :
          /\ ~SatisfiesField(f, Posts[1].payload[f])
          /\ f \in CtorErrors(NamedModel @@ (f :> Posts[1].payload[f]))
    /\ \E f \in RangeOverrides : f = "top_k" /\ Posts[1].payload[f] = PyInt(0)

NonEmptyList(v) == v.t = "list" /\ v.l # <<>>

\* the stop list an operation sends: the list of the call if it has an
\* element, else the list of the instance
ExpectedStop == IF NonEmptyList(args.stop) THEN args.stop ELSE self.stop

ReadOverrides == [k \in DOMAIN args.kwargs \cap KwargsParams |-> args.kwargs[k]]

\* the payload of the operation with every other override dropped
PayloadOfReadOverrides ==
    BuildRequestParams(self, args.prompt, Or(args.stop, self.stop),
                       PyBool(mode = "stream"), ReadOverrides)

\* the call fails on an override: Python finds two values for a parameter
RejectsOverride(r) ==
    /\ r.status = "raised"
    /\ r.exc.cls = "TypeError"
    /\ r.exc.msg = "multiple values for stream"

\* C23: the keys of every payload lie in the fixed set and include model and
\* prompt; an override whose name is not read from the override mapping is
\* dropped silently, adding no key and changing no value; stop_token_ids in
\* the payload is the instance value.
C23_PayloadKeySet ==
    /\ ~RejectsOverride(result)
    /\ Built =>
          /\ DOMAIN params \subseteq PayloadKeys
          /\ {"model", "prompt"} \subseteq DOMAIN params
          /\ params = PayloadOfReadOverrides
          /\ "stop_token_ids" \in DOMAIN params <=> self.stop_token_ids # None
          /\ "stop_token_ids" \in DOMAIN params =>
                params["stop_token_ids"] = self.stop_token_ids
    /\ \A i \in DOMAIN Posts : Posts[i].payload = PayloadOfReadOverrides

----------------------------------------------------------------------------
(* Presets *)

\* the mapping the caller holds is as get_preset_config returned it
HeldAsReturned ==
    /\ config.held # NoRef
    /\ config.returned = Return(config.heap[config.held])

\* C24: every preset of PRESET_CONFIGS passes validate_config with an empty
\* error map and lies inside the ranges the client declares, so the
\* constructor accepts it; get_preset_config returns a copy: whatever the
\* caller does to the mapping it was given, a later get_preset_config returns
\* the preset as defined.
C24_PresetsValidAndCopied ==
    /\ \A name \in PresetNames :
          /\ config.heap[name] = PRESET_CONFIGS[name]
          /\ DOMAIN ValidateConfig(config.heap[name]) = {}
          /\ CtorErrors(NamedModel @@ config.heap[name]) = {}
          /\ \A k \in DOMAIN config.heap[name] \cap DOMAIN FieldRange :
                SatisfiesField(k, config.heap[name][k])
    /\ config.held # NoRef =>
          config.returned = Return(PRESET_CONFIGS[config.name])
    /\ HeldAsReturned =>
          /\ config.errors.status = "returned" =>
                DOMAIN config.errors.value = {}
          /\ config.client.status # "raised"

C24_Witness ==
    /\ config.edited
    /\ config.name = "creative"
    /\ HeldAsReturned
    /\ config.errors.status = "returned"
    /\ config.client.status = "returned"
    /\ config.client.value["top_k"] = PyInt(100)

====
